---- MODULE Spec2Model ----
(***************************************************************************)
(* A model of hbtad.c: the per-frame pcap callback got_packet with the     *)
(* global histogram arrays it updates, the normalized euclidean distance   *)
(* n_e_d / std_dev, and kmeans / mean_vec.                                 *)
(*                                                                         *)
(* A frame is the record of the header fields that got_packet's struct     *)
(* views (sniff_ip at packet+14, sniff_tcp at packet+14+size_ip) read,     *)
(* each multi-byte field as its bytes in wire order, plus the caplen of    *)
(* the pcap header.  got_packet never looks at caplen, so the fields are   *)
(* whatever the memory at those offsets holds, inside the capture or not.  *)
(*                                                                         *)
(* The int arrays are kept sparse: a function from the indices whose       *)
(* counter is non-zero to the counter (all arrays are zeroed by load).     *)
(***************************************************************************)
EXTENDS Integers, Sequences, FiniteSets, TLC

\* ------------------------------------------------------------ constants
SNAP_LEN == 1518
SIZE_ETHERNET == 14
IPPROTO_TCP == 6
IPPROTO_UDP == 17
IPPROTO_ICMP == 1
IPPROTO_IP == 0
INT_MAX == 2147483647
INT_MIN == -INT_MAX - 1

\* ------------------------------------------------------------ bounds
\* frames delivered by pcap_loop in one capture
MaxFrames == 3
\* frames captured before a clustering run
MaxFramesBeforeKmeans == 1
\* vec_len, num_vecs and num_clusters of a kmeans call
MaxVecLen == 1
MaxVecs == 2
MaxClusters == 2
\* len of an n_e_d call
MaxNedLen == 2

VARIABLES
  little_endian,  \* byte order of the host the program was built for
  count,          \* got_packet's static packet counter
  frame,          \* the frame of the last got_packet call
  report,         \* what the last got_packet call printed
  rd_max,         \* highest frame offset the last got_packet call read
  oob,            \* the last got_packet call wrote outside packet_sizes
  src_ip_addrs, dst_ip_addrs, src_ports, dst_ports,
  protocols, packet_sizes, flags,
  \* kmeans: its arguments, its locals and where it stands
  vecs, num_vecs, vec_len, num_clusters,
  map, mean_vecs, min_dist, min_centroid,
  km_i, km_j,     \* the loop counters i and j
  km_pc,          \* "idle", "seed", "assign", "recompute", "done", "crashed"
  km_ret,         \* "none" before the return, then the value returned
  km_err,         \* the ERROR! line was printed
  \* one n_e_d call: its arguments and the float it returned
  ned_vec1, ned_vec2, ned_len, ned_ret

hists == <<src_ip_addrs, dst_ip_addrs, src_ports, dst_ports,
           protocols, packet_sizes, flags>>
capvars == <<little_endian, count, frame, report, rd_max, oob, src_ip_addrs,
             dst_ip_addrs, src_ports, dst_ports, protocols, packet_sizes, flags>>
kmargs == <<vecs, num_vecs, vec_len, num_clusters>>
kmlocals == <<map, mean_vecs, min_dist, min_centroid, km_i, km_j>>
kmvars == <<kmargs, kmlocals, km_pc, km_ret, km_err>>
nedvars == <<ned_vec1, ned_vec2, ned_len, ned_ret>>
vars == <<capvars, kmvars, nedvars>>

\* ------------------------------------------------------------ int arrays
ZeroArr == [x \in {} |-> 0]
Incr(a, idx) ==
  IF idx \in DOMAIN a THEN [a EXCEPT ![idx] = @ + 1] ELSE (idx :> 1) @@ a
RECURSIVE SumOver(_, _)
SumOver(a, S) ==
  IF S = {} THEN 0
  ELSE LET x == CHOOSE y \in S : TRUE IN a[x] + SumOver(a, S \ {x})
Total(a) == SumOver(a, DOMAIN a)

\* ------------------------------------------------------------ byte order
\* a u_short / u_int field loaded from its wire bytes by the host
LoadU16(b) == IF little_endian THEN b[1] + 256 * b[2] ELSE 256 * b[1] + b[2]
\* a 32-bit value is kept as its four bytes, most significant first (the
\* number itself does not fit a 32-bit signed integer)
LoadU32(b) ==
  IF little_endian THEN <<b[4], b[3], b[2], b[1]>> ELSE <<b[1], b[2], b[3], b[4]>>
ntohs(x) == IF little_endian THEN (x % 256) * 256 + (x \div 256) ELSE x
\* the 16-bit number the two wire bytes carry (network byte order)
Wire16(b) == 256 * b[1] + b[2]

\* ------------------------------------------------------------ header macros
IP_HL(vhl) == vhl % 16
TH_OFF(offx2) == (offx2 - (offx2 % 16)) \div 16
\* (s_addr >> 24) & 0xFF
AddrIndex(saddr) == saddr[1] % 256

\* ------------------------------------------------------------ frames
BaseFrame ==
  [caplen |-> 54, ip_vhl |-> 69, ip_len |-> <<0, 40>>, ip_p |-> IPPROTO_TCP,
   ip_src |-> <<10, 1, 2, 3>>, ip_dst |-> <<192, 168, 0, 7>>,
   th_sport |-> <<192, 0>>, th_dport |-> <<0, 80>>,
   th_offx2 |-> 80, th_flags |-> 2]
NoFrame ==
  [caplen |-> 0, ip_vhl |-> 0, ip_len |-> <<0, 0>>, ip_p |-> 0,
   ip_src |-> <<0, 0, 0, 0>>, ip_dst |-> <<0, 0, 0, 0>>,
   th_sport |-> <<0, 0>>, th_dport |-> <<0, 0>>, th_offx2 |-> 0, th_flags |-> 0]
\* the "ip" filter reads the ether type, so caplen >= 14
CapLens == {14, 34}
VHLs == {67, 70}
IpLens == {<<0, 20>>, <<5, 243>>, <<5, 244>>}
Protos == {IPPROTO_UDP, IPPROTO_ICMP, IPPROTO_IP, 47}
Ports == {<<0, 80>>, <<80, 0>>, <<3, 255>>, <<4, 0>>}
\* the base frame (a TCP SYN from 10.1.2.3 to port 80) and every frame that
\* differs from it in one header field
Frames ==
  {BaseFrame}
  \cup {[BaseFrame EXCEPT !.caplen = c] : c \in CapLens}
  \cup {[BaseFrame EXCEPT !.ip_vhl = v] : v \in VHLs}
  \cup {[BaseFrame EXCEPT !.ip_len = l] : l \in IpLens}
  \cup {[BaseFrame EXCEPT !.ip_p = p] : p \in Protos}
  \cup {[BaseFrame EXCEPT !.ip_src = <<172, 16, 0, 10>>]}
  \cup {[BaseFrame EXCEPT !.ip_dst = <<7, 0, 168, 192>>]}
  \cup {[BaseFrame EXCEPT !.th_sport = p] : p \in Ports}
  \cup {[BaseFrame EXCEPT !.th_dport = p] : p \in Ports}
  \cup {[BaseFrame EXCEPT !.th_offx2 = 64]}
  \cup {[BaseFrame EXCEPT !.th_flags = 18]}

\* ------------------------------------------------------------ got_packet
\* a slip of the minimum: 12 bytes, not 20
IpHeaderInvalid_m(size_ip) == size_ip < 12
IpHeaderInvalid(size_ip) == size_ip < 20
TcpHeaderInvalid(size_tcp) == size_tcp < 20
PortTracked(port) == port < 1024
SizeFits(size_payload, size_ip) ==
  size_payload + SIZE_ETHERNET + size_ip < SNAP_LEN

\* packet_sizes[idx]++ : with idx < 0 the write lands below the array. The
\* globals declared before it are protocols[4] and dst_ports[1024]; laid out
\* in declaration order the write hits one of them, laid out otherwise it
\* hits memory that is none of the seven arrays.
StorePacketSize(idx, prot, dports) ==
  IF idx >= 0
  THEN /\ packet_sizes' = Incr(packet_sizes, idx)
       /\ protocols' = prot
       /\ dst_ports' = dports
       /\ oob' = FALSE
  ELSE /\ packet_sizes' = packet_sizes
       /\ oob' = TRUE
       /\ \E layout \in {"declared", "other"} :
            IF layout = "declared" /\ -idx <= 4
            THEN protocols' = Incr(prot, 4 + idx) /\ dst_ports' = dports
            ELSE IF layout = "declared" /\ -idx <= 1028
            THEN protocols' = prot /\ dst_ports' = Incr(dports, 1028 + idx)
            ELSE protocols' = prot /\ dst_ports' = dports

got_packet(f) ==
  LET size_ip == IP_HL(f.ip_vhl) * 4
      size_tcp == TH_OFF(f.th_offx2) * 4
      sport == LoadU16(f.th_sport)
      dport == LoadU16(f.th_dport)
      size_payload == ntohs(LoadU16(f.ip_len)) - (size_ip + size_tcp)
      dports == IF PortTracked(dport) THEN Incr(dst_ports, dport) ELSE dst_ports
  IN
  /\ count' = count + 1
  /\ frame' = f
  /\ UNCHANGED little_endian
  /\ IF IpHeaderInvalid(size_ip)
     THEN /\ report' = "invalid_ip"
          /\ rd_max' = SIZE_ETHERNET
          /\ oob' = FALSE
          /\ UNCHANGED hists
     ELSE
       /\ src_ip_addrs' = Incr(src_ip_addrs, AddrIndex(LoadU32(f.ip_src)))
       /\ dst_ip_addrs' = Incr(dst_ip_addrs, AddrIndex(LoadU32(f.ip_dst)))
       /\ IF f.ip_p # IPPROTO_TCP
          THEN /\ protocols' =
                    CASE f.ip_p = IPPROTO_UDP -> Incr(protocols, 1)
                      [] f.ip_p = IPPROTO_ICMP -> Incr(protocols, 2)
                      [] f.ip_p = IPPROTO_IP -> Incr(protocols, 3)
                      [] OTHER -> protocols
               /\ packet_sizes' = Incr(packet_sizes, SIZE_ETHERNET + size_ip)
               /\ report' = "none"
               /\ rd_max' = SIZE_ETHERNET + 19
               /\ oob' = FALSE
               /\ UNCHANGED <<src_ports, dst_ports, flags>>
          ELSE IF TcpHeaderInvalid(size_tcp)
          THEN /\ protocols' = Incr(protocols, 0)
               /\ report' = "invalid_tcp"
               /\ rd_max' = SIZE_ETHERNET + size_ip + 12
               /\ oob' = FALSE
               /\ UNCHANGED <<src_ports, dst_ports, packet_sizes, flags>>
          ELSE /\ flags' = Incr(flags, f.th_flags)
               /\ src_ports' =
                    IF PortTracked(sport) THEN Incr(src_ports, sport) ELSE src_ports
               /\ rd_max' = SIZE_ETHERNET + size_ip + 13
               /\ IF SizeFits(size_payload, size_ip)
                  THEN /\ StorePacketSize(size_payload, Incr(protocols, 0), dports)
                       /\ report' = "none"
                  ELSE /\ protocols' = Incr(protocols, 0)
                       /\ dst_ports' = dports
                       /\ packet_sizes' = packet_sizes
                       /\ oob' = FALSE
                       /\ report' = "oversized"

\* ------------------------------------------------------------ floats
\* A float is NaN, an infinity or a rational n/d in lowest terms (d > 0).
\* Rounding is left out: on the small integers of the bounded inputs every
\* operation of std_dev and n_e_d is exact in IEEE arithmetic.
Abs(x) == IF x < 0 THEN -x ELSE x
RECURSIVE GCD(_, _)
GCD(a, b) == IF b = 0 THEN a ELSE GCD(b, a % b)
Fin(n, d) ==
  LET g == GCD(Abs(n), d) IN [kind |-> "fin", n |-> n \div g, d |-> d \div g]
NaN == [kind |-> "nan", n |-> 0, d |-> 1]
Inf(sign) == [kind |-> "inf", n |-> sign, d |-> 1]
FromInt(x) == Fin(x, 1)
Sign(x) == IF x.n < 0 THEN -1 ELSE IF x.n > 0 THEN 1 ELSE 0
FAdd(x, y) ==
  IF x.kind = "nan" \/ y.kind = "nan" THEN NaN
  ELSE IF x.kind = "inf" /\ y.kind = "inf"
  THEN (IF x.n = y.n THEN x ELSE NaN)
  ELSE IF x.kind = "inf" THEN x
  ELSE IF y.kind = "inf" THEN y
  ELSE Fin(x.n * y.d + y.n * x.d, x.d * y.d)
FNeg(x) == [x EXCEPT !.n = -x.n]
FSub(x, y) == FAdd(x, FNeg(y))
FMul(x, y) ==
  IF x.kind = "nan" \/ y.kind = "nan" THEN NaN
  ELSE IF x.kind = "inf" \/ y.kind = "inf"
  THEN (IF Sign(x) * Sign(y) = 0 THEN NaN ELSE Inf(Sign(x) * Sign(y)))
  ELSE Fin(x.n * y.n, x.d * y.d)
FDiv(x, y) ==
  IF x.kind = "nan" \/ y.kind = "nan" THEN NaN
  ELSE IF x.kind = "inf"
  THEN (IF y.kind = "inf" THEN NaN
        ELSE Inf(IF Sign(y) < 0 THEN -x.n ELSE x.n))
  ELSE IF y.kind = "inf" THEN FromInt(0)
  ELSE IF y.n = 0 THEN (IF x.n = 0 THEN NaN ELSE Inf(Sign(x)))
  ELSE Fin(x.n * y.d * Sign(y), x.d * Abs(y.n))
\* the exact root; the radicands of the bounded inputs are squares
IntRoot(x) == CHOOSE r \in 0..x : r * r = x
FSqrt(x) ==
  IF x.kind = "nan" THEN NaN
  ELSE IF x.kind = "inf" THEN (IF x.n > 0 THEN x ELSE NaN)
  ELSE IF x.n < 0 THEN NaN
  ELSE Fin(IntRoot(x.n), IntRoot(x.d))

\* ------------------------------------------------------------ std_dev, n_e_d
RECURSIVE FSum(_, _)
FSum(vals, n) == IF n = 0 THEN FromInt(0) ELSE FAdd(FSum(vals, n - 1), vals[n])
std_dev(vals, n) ==
  IF n = 0 THEN FromInt(0)
  ELSE LET sum == FSum(vals, n)
           mean == FDiv(sum, FromInt(n))
           sq == [k \in 1..n |->
                    LET diff == FSub(vals[k], mean) IN FMul(diff, diff)]
           sq_diff_sum == FSum(sq, n)
           variance == FDiv(sq_diff_sum, FromInt(n))
       IN FSqrt(variance)

\* the term one dimension adds to d, for the ints a = vec1[i], b = vec2[i]
NedTerm(a, b) ==
  LET sd == std_dev(<<FromInt(a), FromInt(b)>>, 2)
      ab == FromInt(Abs(a - b))
  IN FSqrt(FDiv(FMul(ab, ab), FMul(sd, sd)))
\* vectors are functions on 0..len-1, as the C arrays are
RECURSIVE NedUpTo(_, _, _)
NedUpTo(vec1, vec2, k) ==
  IF k = 0 THEN FromInt(0)
  ELSE FAdd(NedUpTo(vec1, vec2, k - 1), NedTerm(vec1[k - 1], vec2[k - 1]))
n_e_d(vec1, vec2, len) == NedUpTo(vec1, vec2, len)

\* int dist = <float>: the truncated value when it fits an int; otherwise
\* (NaN, infinity) the conversion is undefined and yields any int
FloatToInt(x) ==
  IF x.kind = "fin" THEN {IF x.n >= 0 THEN x.n \div x.d ELSE -((-x.n) \div x.d)}
  ELSE {INT_MIN, 0, INT_MAX}

\* ------------------------------------------------------------ kmeans
KVals == {0, 1}
Vectors(len, S) == [0..(len - 1) -> S]
\* what an uninitialized int local may hold
Garbage == {-1, 0, MaxClusters}

TooFewVectors_m(n, k) == n + 1 < k
TooFewVectors(n, k) == n < k

\* lines 772-780: the argument check, then the three mallocs
kmeans_call ==
  /\ km_pc = "idle"
  /\ IF TooFewVectors(num_vecs, num_clusters)
     THEN /\ km_err' = TRUE
          /\ km_ret' = "NULL"
          /\ km_pc' = "done"
          /\ UNCHANGED kmlocals
     ELSE /\ km_pc' = "seed"
          /\ map' = ZeroArr
          /\ mean_vecs' = ZeroArr
          /\ min_centroid' \in Garbage
          /\ UNCHANGED <<min_dist, km_i, km_j, km_err, km_ret>>
  /\ UNCHANGED <<capvars, kmargs, nedvars>>

\* lines 782-791: mean_vecs[i][j] = vecs[i][j] goes through mean_vecs[i], a
\* pointer read from the uninitialized block malloc returned: undefined, so
\* either the store faults or it lands and reads back
kmeans_seed ==
  /\ km_pc = "seed"
  /\ \E outcome \in {"fault", "stored"} :
       IF num_clusters >= 1 /\ vec_len >= 1 /\ outcome = "fault"
       THEN /\ km_pc' = "crashed"
            /\ UNCHANGED <<mean_vecs, min_dist, km_i, km_j>>
       ELSE /\ mean_vecs' =
                 IF vec_len >= 1
                 THEN [c \in 0..(num_clusters - 1) |-> vecs[c]]
                 ELSE mean_vecs
            /\ min_dist' = INT_MAX
            /\ km_i' = 0
            /\ km_j' = 0
            /\ km_pc' = "assign"
  /\ UNCHANGED <<capvars, kmargs, nedvars, map, min_centroid, km_ret, km_err>>

\* lines 796-805: one pass of the inner loop
kmeans_dist ==
  /\ km_pc = "assign"
  /\ km_i < num_vecs
  /\ km_j < num_clusters
  /\ LET centroid == IF km_j \in DOMAIN mean_vecs THEN mean_vecs[km_j] ELSE ZeroArr
     IN \E dist \in FloatToInt(n_e_d(vecs[km_i], centroid, vec_len)) :
          min_centroid' = IF dist < min_dist THEN km_j ELSE min_centroid
  /\ km_j' = km_j + 1
  /\ UNCHANGED <<capvars, kmargs, nedvars, map, mean_vecs, min_dist, km_i,
                 km_pc, km_ret, km_err>>

\* line 807, and the step of the outer loop; after the last vector, line 811
kmeans_assign ==
  /\ km_pc = "assign"
  /\ IF km_i < num_vecs
     THEN /\ km_j >= num_clusters
          /\ map' = (km_i :> min_centroid) @@ map
          /\ km_i' = km_i + 1
          /\ km_j' = 0
          /\ UNCHANGED km_pc
     ELSE /\ km_pc' = "recompute"
          /\ km_i' = 0
          /\ UNCHANGED <<map, km_j>>
  /\ UNCHANGED <<capvars, kmargs, nedvars, mean_vecs, min_dist, min_centroid,
                 km_ret, km_err>>

\* mean_vec (lines 831-850) called with num vectors of vec_len ints: m_vec is
\* pointed at a fresh block, so the caller's centroid is never written; with
\* num = 0 and vec_len >= 1, sum/num_vecs divides by zero
MeanVecDividesByZero(num, len) == len >= 1 /\ num = 0

\* lines 811-825: one pass of the recompute loop
kmeans_recompute ==
  /\ km_pc = "recompute"
  /\ km_i < num_clusters
  /\ LET tmp_vecs_idx == Cardinality({v \in DOMAIN map : map[v] = km_i})
     IN \E outcome \in {"fault", "returns"} :
          IF MeanVecDividesByZero(tmp_vecs_idx, vec_len) /\ outcome = "fault"
          THEN km_pc' = "crashed" /\ UNCHANGED km_i
          ELSE km_pc' = km_pc /\ km_i' = km_i + 1
  /\ UNCHANGED <<capvars, kmargs, nedvars, map, mean_vecs, min_dist,
                 min_centroid, km_j, km_ret, km_err>>

\* line 827
kmeans_return ==
  /\ km_pc = "recompute"
  /\ km_i >= num_clusters
  /\ km_ret' = "NULL"
  /\ km_pc' = "done"
  /\ UNCHANGED <<capvars, kmargs, nedvars, kmlocals, km_err>>

\* ------------------------------------------------------------ capture
\* load: the arrays zeroed, then pcap_loop calls got_packet once per frame
InitCapture ==
  /\ little_endian \in BOOLEAN
  /\ count = 1
  /\ frame = NoFrame
  /\ report = "none"
  /\ rd_max = 0
  /\ oob = FALSE
  /\ src_ip_addrs = ZeroArr /\ dst_ip_addrs = ZeroArr
  /\ src_ports = ZeroArr /\ dst_ports = ZeroArr
  /\ protocols = ZeroArr /\ packet_sizes = ZeroArr /\ flags = ZeroArr

\* kmeans not called yet, with the given arguments
KmeansNotCalled ==
  /\ map = ZeroArr /\ mean_vecs = ZeroArr
  /\ min_dist = 0 /\ min_centroid = 0 /\ km_i = 0 /\ km_j = 0
  /\ km_pc = "idle" /\ km_ret = "none" /\ km_err = FALSE
NoKmeansArgs ==
  /\ vecs = ZeroArr /\ num_vecs = 0 /\ vec_len = 0 /\ num_clusters = 0
NoFloat == [kind |-> "none", n |-> 0, d |-> 1]
NoNedArgs ==
  /\ ned_vec1 = ZeroArr /\ ned_vec2 = ZeroArr /\ ned_len = 0 /\ ned_ret = NoFloat

Init == InitCapture /\ KmeansNotCalled /\ NoKmeansArgs /\ NoNedArgs

pcap_loop ==
  /\ \E f \in Frames : count <= MaxFrames /\ got_packet(f)
  /\ UNCHANGED <<kmvars, nedvars>>

Next == pcap_loop

Spec == Init /\ [][Next]_vars

\* ------------------------------------------------------------ clustering run
\* a capture of a few frames, then one kmeans call on vectors of the caller
InitKmeans ==
  /\ InitCapture /\ KmeansNotCalled /\ NoNedArgs
  /\ vec_len \in 0..MaxVecLen
  /\ num_vecs \in 0..MaxVecs
  /\ num_clusters \in 0..MaxClusters
  /\ vecs \in [0..(num_vecs - 1) -> Vectors(vec_len, KVals)]

capture ==
  /\ km_pc = "idle"
  /\ count <= MaxFramesBeforeKmeans
  /\ got_packet(BaseFrame)
  /\ UNCHANGED <<kmvars, nedvars>>

NextKmeans ==
  \/ capture
  \/ kmeans_call
  \/ kmeans_seed
  \/ kmeans_dist
  \/ kmeans_assign
  \/ kmeans_recompute
  \/ kmeans_return

SpecKmeans == InitKmeans /\ [][NextKmeans]_vars

\* ------------------------------------------------------------ one n_e_d call
NedVals == {0, 1, 3}
InitNed ==
  /\ InitCapture /\ KmeansNotCalled /\ NoKmeansArgs
  /\ ned_len \in 0..MaxNedLen
  /\ ned_vec1 \in Vectors(ned_len, NedVals)
  /\ ned_vec2 \in Vectors(ned_len, NedVals)
  /\ ned_ret = NoFloat

call_n_e_d ==
  /\ ned_ret = NoFloat
  /\ ned_ret' = n_e_d(ned_vec1, ned_vec2, ned_len)
  /\ UNCHANGED <<capvars, kmvars, ned_vec1, ned_vec2, ned_len>>

NextNed == call_n_e_d

SpecNed == InitNed /\ [][NextNed]_vars

\* ------------------------------------------------------------ the claims
\* a got_packet call happened in this step
Called == count' = count + 1
\* the frame's words for the claims, read off the wire bytes
HlField(f) == f.ip_vhl % 16
DataOffsetField(f) == f.th_offx2 \div 16
ClaimMalformed(f) ==
  HlField(f) < 5 \/ (f.ip_p = 6 /\ DataOffsetField(f) < 5)
ClaimWellFormedTcp(f) ==
  HlField(f) >= 5 /\ f.ip_p = 6 /\ DataOffsetField(f) >= 5

\* the last call read nothing at or above the frame's caplen
InCapture == rd_max < frame.caplen

\* the kmeans call itself: the step that leaves "idle"
KmeansCalled == km_pc = "idle" /\ km_pc' # "idle"

\* C1: a frame whose IP header-length field is below 5 is reported as an
\* invalid IP header and changes no histogram counter, whatever the counters
\* held before it.
C1_IpHlBelow5ChangesNothing ==
  [][(Called /\ HlField(frame') < 5)
       => (report' = "invalid_ip" /\ UNCHANGED hists)]_vars
C1_Witness ==
  /\ count > 2
  /\ HlField(frame) < 5
  /\ report = "invalid_ip"
  /\ Total(protocols) > 0 /\ Total(src_ip_addrs) > 0

\* C2: a TCP frame whose data-offset field is below 5 changes no histogram
\* counter at all.
C2_TcpOffBelow5ChangesNothing ==
  [][(Called /\ HlField(frame') >= 5 /\ frame'.ip_p = 6
        /\ DataOffsetField(frame') < 5)
       => UNCHANGED hists]_vars

\* C3: every header byte read lies below the frame's caplen, and a frame too
\* short for the Ethernet, IP and (for TCP) TCP headers is reported malformed.
C3_ReadsBelowCaplen ==
  count > 1 =>
    /\ rd_max < frame.caplen
    /\ (frame.caplen < SIZE_ETHERNET + 20
          => report \in {"invalid_ip", "invalid_tcp"})

\* C4: every non-malformed frame, whatever its IP protocol field, adds
\* exactly one to the sum of the four protocol counters (so the sum counts
\* the non-malformed frames). Stated for frames that lie wholly within their
\* caplen and steps that write inside the arrays.
C4_ProtocolSumCountsFrames ==
  [][(Called /\ ~ClaimMalformed(frame') /\ InCapture' /\ ~oob')
       => Total(protocols)' = Total(protocols) + 1]_vars

\* C5: a well-formed TCP frame with destination port p (network byte order)
\* increments dst_ports[p] iff p < 1024 and no other dst_ports entry; the
\* same for the source port and src_ports. Stated for frames that lie wholly
\* within their caplen and steps that write inside the arrays.
C5_PortsCountedBelow1024 ==
  [][(Called /\ ClaimWellFormedTcp(frame') /\ InCapture' /\ ~oob')
       => /\ dst_ports' =
               IF Wire16(frame'.th_dport) < 1024
               THEN Incr(dst_ports, Wire16(frame'.th_dport)) ELSE dst_ports
          /\ src_ports' =
               IF Wire16(frame'.th_sport) < 1024
               THEN Incr(src_ports, Wire16(frame'.th_sport)) ELSE src_ports]_vars

\* C6: a non-malformed frame increments the src_ip_addrs counter of the
\* first octet on the wire of its source address, and the dst_ip_addrs
\* counter of the first octet of its destination address, and no other.
\* Stated for frames that lie wholly within their caplen.
C6_FirstOctetCounted ==
  [][(Called /\ ~ClaimMalformed(frame') /\ InCapture')
       => /\ src_ip_addrs' = Incr(src_ip_addrs, frame'.ip_src[1])
          /\ dst_ip_addrs' = Incr(dst_ip_addrs, frame'.ip_dst[1])]_vars

\* C7: for a well-formed TCP frame with payload_len = total length - (IP
\* header + TCP header): negative, or 14 + IP header + payload_len above
\* 1518, changes no packet_sizes counter and is reported oversized; otherwise
\* exactly packet_sizes[payload_len] is incremented, 0 <= payload_len < 1518.
C7_PayloadSizeCounted ==
  [][(Called /\ ClaimWellFormedTcp(frame'))
       => LET ihl == HlField(frame') * 4
              payload_len ==
                Wire16(frame'.ip_len) - (ihl + DataOffsetField(frame') * 4)
          IN IF payload_len < 0 \/ 14 + ihl + payload_len > 1518
             THEN packet_sizes' = packet_sizes /\ report' = "oversized"
             ELSE /\ packet_sizes' = Incr(packet_sizes, payload_len)
                  /\ payload_len >= 0 /\ payload_len < 1518
                  /\ report' = "none"]_vars

\* C8: kmeans called with num_vecs < num_clusters returns at once with the
\* error result (NULL, after the ERROR! line) and changes nothing else: no
\* histogram counter or other global, no input vector, none of its buffers.
C8_TooFewVectorsFails ==
  [][(KmeansCalled /\ num_vecs < num_clusters)
       => /\ km_pc' = "done"
          /\ km_ret' = "NULL"
          /\ km_err'
          /\ UNCHANGED <<capvars, kmargs, kmlocals, nedvars>>]_vars
C8_Witness ==
  /\ km_pc = "done"
  /\ km_err
  /\ km_ret = "NULL"
  /\ num_vecs >= 1
  /\ num_vecs < num_clusters
  /\ Total(protocols) > 0

\* C9: a kmeans call with num_vecs >= num_clusters = k >= 1 returns an
\* assignment that maps every vector index in [0, num_vecs) to one cluster id
\* in [0, k). Stated for vectors of at least one dimension.
C9_ReturnsAssignment ==
  (km_pc = "done" /\ num_vecs >= num_clusters /\ num_clusters >= 1
     /\ vec_len >= 1)
    => /\ km_ret # "NULL"
       /\ \A v \in 0..(num_vecs - 1) : km_ret[v] \in 0..(num_clusters - 1)

\* C10: the distance of a vector to itself is 0: a dimension whose two
\* values are equal adds 0, not a non-finite value.
C10_DistanceToSelfIsZero ==
  (ned_ret # NoFloat /\ ned_vec1 = ned_vec2) => ned_ret = FromInt(0)

\* C11: the distance is the square root of the sum over the dimensions of
\* (a[i]-b[i])^2 / stddev_i^2, so its square is the sum of the contributions:
\* 4 for each dimension in which a and b differ. Stated for vectors that
\* differ in every dimension (no standard deviation is 0).
C11_DistanceIsRootOfSum ==
  (ned_ret # NoFloat /\ ned_len >= 1
     /\ \A k \in 0..(ned_len - 1) : ned_vec1[k] # ned_vec2[k])
    => FMul(ned_ret, ned_ret) = FromInt(4 * ned_len)

\* the square of the claimed distance (C10, C11): 4 for each dimension in
\* which the two vectors differ, 0 for a dimension in which they are equal
ClaimDist2(a, b, len) == 4 * Cardinality({d \in 0..(len - 1) : a[d] # b[d]})
\* the centroid the claimed assignment step picks for vector v: at minimum
\* distance, the lowest index among equals
ClaimNearest(v, centroids) ==
  CHOOSE c \in 0..(num_clusters - 1) :
    \A c2 \in 0..(num_clusters - 1) :
      \/ ClaimDist2(v, centroids[c], vec_len) < ClaimDist2(v, centroids[c2], vec_len)
      \/ /\ ClaimDist2(v, centroids[c], vec_len) = ClaimDist2(v, centroids[c2], vec_len)
         /\ c <= c2
\* the step that stores map[i] (line 807)
VectorAssigned == km_pc = "assign" /\ km_i < num_vecs /\ km_i' = km_i + 1

\* C12: the assignment step gives every vector i the centroid at minimum
\* distance from it, the minimum taken afresh for each vector over all k
\* centroids, the lowest index among centroids at the same distance. Stated
\* for a vector that differs from the last centroid in every dimension, so
\* that n_e_d to that centroid is finite and line 800 compares a defined int.
C12_AssignedToNearest ==
  [][(/\ VectorAssigned /\ vec_len >= 1 /\ num_clusters >= 1
      /\ \A d \in 0..(vec_len - 1) :
            vecs[km_i][d] # mean_vecs[num_clusters - 1][d])
       => map'[km_i] = ClaimNearest(vecs[km_i], mean_vecs)]_vars

\* the vectors the recompute pass for cluster c collects (lines 815-822)
Members(c) == {v \in DOMAIN map : map[v] = c}
RECURSIVE SumDim(_, _)
SumDim(S, d) ==
  IF S = {} THEN 0
  ELSE LET v == CHOOSE x \in S : TRUE IN vecs[v][d] + SumDim(S \ {v}, d)
\* the element-wise mean of the members of cluster c, in the ints of a centroid
ClaimMean(c) ==
  [d \in 0..(vec_len - 1) |-> SumDim(Members(c), d) \div Cardinality(Members(c))]
\* one pass of the recompute loop, ended or faulted
Recomputed ==
  /\ km_pc = "recompute" /\ km_i < num_clusters
  /\ (km_i' = km_i + 1 \/ km_pc' = "crashed")

\* C13: the recompute step makes the stored centroid i the element-wise mean
\* of the vectors assigned to cluster i; with no vector assigned it leaves
\* the centroid as it was, without a division by zero. Stated for the passes
\* that start with every vector assigned a cluster id in [0, k).
C13_CentroidBecomesMean ==
  [][(/\ Recomputed /\ vec_len >= 1
      /\ \A v \in DOMAIN map : map[v] \in 0..(num_clusters - 1))
       => IF Members(km_i) = {}
          THEN km_pc' # "crashed" /\ mean_vecs' = mean_vecs
          ELSE km_pc' # "crashed" /\ mean_vecs'[km_i] = ClaimMean(km_i)]_vars

\* C14: kmeans repeats the assignment and recompute steps and returns only
\* once converged: on return one more assignment step on the final centroids
\* changes no vector's cluster (kmeans has no iteration count that could end
\* it earlier). Stated for pairwise different input vectors and the returns
\* with every vector assigned a cluster id in [0, k).
C14_ReturnsConverged ==
  (/\ km_pc = "done" /\ ~km_err /\ vec_len >= 1 /\ num_clusters >= 1
   /\ \A v, w \in 0..(num_vecs - 1) : v # w => vecs[v] # vecs[w]
   /\ \A v \in DOMAIN map : map[v] \in 0..(num_clusters - 1))
    => \A v \in 0..(num_vecs - 1) :
         v \in DOMAIN map /\ map[v] = ClaimNearest(vecs[v], mean_vecs)

====
